---------------------------- MODULE Spec2Model ----------------------------
(***************************************************************************)
(* A model of archive-np (src/src/main.rs): the discovery loop of          *)
(* process_member, the single-URL mode of process_one, and the per-volume  *)
(* pipeline download_np with its concurrent asset transfers and its        *)
(* copy-then-rename commit.                                                *)
(*                                                                         *)
(* Strings are sequences of one-character strings, so that trimming,       *)
(* slicing, lower-casing and formatting are computed as the code computes  *)
(* them.  An Option<T> is a sequence of length at most one: None is <<>>   *)
(* and Some(x) is <<x>>.                                                   *)
(***************************************************************************)
EXTENDS Naturals, Sequences, FiniteSets, TLC

(***************************************************************************)
(* Bounds of the model.                                                    *)
(***************************************************************************)
\* longest listing (number of entries over all pages) of the generic listings
MaxEntries == 3
\* largest value of --limit
MaxLimit == 2
\* longest asset list of a detail page
MaxAssets == 3
\* longest URL list of the url subcommand
MaxUrls == 3
\* largest number of assets of the transfer-pool specification
MaxPoolAssets == 22

\* buffer_unordered(20)
Concurrency == 20

(***************************************************************************)
(* Strings and options                                                     *)
(***************************************************************************)
None == <<>>
Some(x) == <<x>>
is_some(o) == Len(o) = 1
unwrap(o) == o[1]

DigitChars == <<"0", "1", "2", "3", "4", "5", "6", "7", "8", "9">>

\* char::is_ascii_digit
is_ascii_digit(c) == \E k \in 1..10 : DigitChars[k] = c

\* the decimal digits of n, as `{}` formats an integer
RECURSIVE to_string(_)
to_string(n) ==
    IF n < 10 THEN <<DigitChars[n + 1]>>
    ELSE to_string(n \div 10) \o <<DigitChars[(n % 10) + 1]>>

\* `{:03}`: zero-padded to a minimum width of three
RECURSIVE PadZero(_, _)
PadZero(s, w) == IF Len(s) >= w THEN s ELSE PadZero(<<"0">> \o s, w)

fmt03(n) == PadZero(to_string(n), 3)

\* str::to_lowercase on the characters and name pieces the model uses
to_lowercase_char(c) ==
    CASE c = "F" -> "f"
      [] c = "B" -> "b"
      [] c = "JPG" -> "jpg"
      [] OTHER -> c

to_lowercase(s) == [k \in 1..Len(s) |-> to_lowercase_char(s[k])]

is_whitespace(c) == c \in {" ", "\n"}

\* str::trim
RECURSIVE trim_start(_)
trim_start(s) ==
    IF s # <<>> /\ is_whitespace(Head(s)) THEN trim_start(Tail(s)) ELSE s

RECURSIVE trim_end(_)
trim_end(s) ==
    IF s # <<>> /\ is_whitespace(s[Len(s)])
    THEN trim_end(SubSeq(s, 1, Len(s) - 1)) ELSE s

trim(s) == trim_end(trim_start(s))

\* str::replace('\n', "")
remove_newlines(s) == SelectSeq(s, LAMBDA c : c # "\n")

(***************************************************************************)
(* Volume                                                                  *)
(***************************************************************************)
Volume(id, title, date) == [id |-> id, title |-> title, date |-> date]

\* impl PartialEq for Volume
Volume_eq(a, b) == a.id = b.id

\* Vec::dedup: drops every element equal to the element retained before it
RECURSIVE dedup_from(_, _)
dedup_from(kept, s) ==
    IF s = <<>> THEN kept
    ELSE IF kept # <<>> /\ Volume_eq(Head(s), kept[Len(kept)])
         THEN dedup_from(kept, Tail(s))
         ELSE dedup_from(Append(kept, Head(s)), Tail(s))

dedup(s) == dedup_from(<<>>, s)

\* a truncate that cuts nothing
truncate_mut(s, l) == s

\* Vec::truncate
truncate(s, l) == IF l < Len(s) THEN SubSeq(s, 1, l) ELSE s

(***************************************************************************)
(* The title filter: a case-insensitive Regex.  A pattern is either the    *)
(* default ".*" (kind "any") or a literal word (kind "lit").               *)
(***************************************************************************)
RegexAny == [kind |-> "any", word |-> <<>>]
RegexLit(w) == [kind |-> "lit", word |-> w]

\* main: the filter argument, None becoming ".*"
build_filter(f) == IF is_some(f) THEN RegexLit(unwrap(f)) ELSE RegexAny

\* is_match of a pattern built without case_insensitive(true)
is_match_mut(re, text) ==
    \/ re.kind = "any"
    \/ /\ re.kind = "lit"
       /\ \E off \in 0..Len(text) :
            /\ off + Len(re.word) <= Len(text)
            /\ \A k \in 1..Len(re.word) : text[off + k] = re.word[k]

\* Regex::is_match, unanchored and case-insensitive
is_match(re, text) ==
    \/ re.kind = "any"
    \/ /\ re.kind = "lit"
       /\ \E off \in 0..Len(text) :
            /\ off + Len(re.word) <= Len(text)
            /\ \A k \in 1..Len(re.word) :
                 to_lowercase_char(text[off + k]) = to_lowercase_char(re.word[k])

\* the closure of np_vols.retain
retain_pred(re, vol) ==
    IF is_some(vol.title) THEN is_match(re, unwrap(vol.title)) ELSE FALSE

retain(re, s) == SelectSeq(s, LAMBDA v : retain_pred(re, v))

(***************************************************************************)
(* Extraction                                                              *)
(***************************************************************************)
Ok(v) == [kind |-> "ok", val |-> v]
Err == [kind |-> "err", val |-> <<>>]
Panic == [kind |-> "panic", val |-> <<>>]

\* extract_date: the content of the creation-date meta tag, trimmed, sliced
\* at the byte offsets 0..4, 5..7 and 8..10; a slice out of range panics
extract_date(doc) ==
    IF ~is_some(doc.date_raw) THEN Err
    ELSE LET date_raw == remove_newlines(trim(unwrap(doc.date_raw)))
         IN  IF Len(date_raw) < 10 THEN Panic
             ELSE Ok(SubSeq(date_raw, 1, 4) \o SubSeq(date_raw, 6, 7)
                       \o SubSeq(date_raw, 9, 10))

\* extract_title
extract_title(doc) ==
    IF ~is_some(doc.title_raw) THEN Err
    ELSE Ok(remove_newlines(trim(unwrap(doc.title_raw))))

\* extract_images: the first selector family, else the second
extract_images(doc) == IF doc.imgs1 # <<>> THEN doc.imgs1 ELSE doc.imgs2

\* the index of the last occurrence of c in s, 0 when there is none
RECURSIVE rfind(_, _)
rfind(s, c) ==
    IF s = <<>> THEN 0
    ELSE IF s[Len(s)] = c THEN Len(s) ELSE rfind(SubSeq(s, 1, Len(s) - 1), c)

\* Path::file_name: the last component, trailing separators dropped
RECURSIVE file_name(_)
file_name(p) ==
    IF p = <<>> THEN None
    ELSE IF p[Len(p)] = "/" THEN file_name(SubSeq(p, 1, Len(p) - 1))
    ELSE LET k == rfind(p, "/")
             f == SubSeq(p, k + 1, Len(p))
         IN  IF f = <<".", ".">> THEN None ELSE Some(f)

\* Path::extension: what follows the last dot of the file name, unless the
\* only dot is its first character
path_extension(p) ==
    LET fo == file_name(p)
    IN  IF ~is_some(fo) THEN None
        ELSE LET f == unwrap(fo)
                 k == rfind(f, ".")
             IN  IF k <= 1 THEN None ELSE Some(SubSeq(f, k + 1, Len(f)))

\* extract_extension
extract_extension(url) ==
    LET e == path_extension(url)
    IN  IF is_some(e) THEN <<".">> \o to_lowercase(unwrap(e)) ELSE <<>>

\* format!("{}-{}-{}/", date, vol.id, title): the name of the destination
\* directory under the base directory
dir_name(date, id, title) ==
    date \o <<"-">> \o to_string(id) \o <<"-">> \o title

\* format!("{}-{}-{}-img{:03}{}", date, vol.id, title, i + 1, ext), i from 0
asset_file_name(date, id, title, i, ext) ==
    dir_name(date, id, title) \o <<"-", "i", "m", "g">> \o fmt03(i + 1) \o ext


(***************************************************************************)
(* Inputs: what the listing endpoint, the detail endpoint and the command  *)
(* line hold in the runs the model explores.                               *)
(***************************************************************************)
S_Foo == <<"F", "o", "o">>
S_bar == <<"b", "a", "r">>
S_FooBar == <<"F", "o", "o", "B", "a", "r">>
S_foo == <<"f", "o", "o">>

\* a creation date as the detail page gives it, "2023-05-07T", and the date
\* of the same day as the listing gives it
RawDate == <<" ", "2", "0", "2", "3", "-", "0", "5", "-", "0", "7", "T", "\n">>
ListDate == <<"2", "0", "2", "3", "0", "5", "0", "7">>

\* asset URLs: path pieces with "/" and "." as characters of their own
U1 == <<"h", "/", "a", ".", "JPG">>
U2 == <<"h", "/", "b", ".", "png">>
U3 == <<"h", "/", "c">>
UrlPool == <<U1, U2, U3>>

AssetList(n) == [i \in 1..n |-> UrlPool[((i - 1) % 3) + 1]]

Doc(d, t, i1, i2) == [date_raw |-> d, title_raw |-> t, imgs1 |-> i1, imgs2 |-> i2]

RawTitle(t) == <<" ">> \o t \o <<"\n">>

PFull(n) == Doc(Some(RawDate), Some(RawTitle(S_Foo)), AssetList(n), <<>>)

\* the detail pages the volume 1 may have in the url runs
DetailPages ==
    {PFull(n) : n \in 0..MaxAssets}
    \cup { Doc(Some(RawDate), Some(RawTitle(S_Foo)), <<U1, U1>>, <<>>),
           Doc(Some(RawDate), Some(RawTitle(S_Foo)), <<>>, <<U2, U3>>),
           Doc(None, Some(RawTitle(S_Foo)), <<U1>>, <<>>),
           Doc(Some(<<"2", "0", "2", "3">>), Some(RawTitle(S_Foo)), <<U1>>, <<>>),
           Doc(Some(<<"2", "0", "2", "3", "0", "5", "0", "7", "x", "x">>),
               Some(RawTitle(S_Foo)), <<U1>>, <<>>),
           Doc(Some(RawDate), None, <<U1>>, <<>>) }

\* the volumes a listing page may hold: volume 1 as the detail page has it,
\* volume 1 with a stale title and a date that is no number, volume 2, and a
\* volume whose entry has neither title nor date
VA == Volume(1, Some(S_Foo), Some(ListDate))
VA2 == Volume(1, Some(S_bar), Some(<<"1", "d">>))
VB == Volume(2, Some(S_bar), Some(ListDate))
VC == Volume(3, None, None)
ListVols == {VA, VA2, VB, VC}

RECURSIVE Paginate(_, _)
Paginate(s, size) ==
    IF Len(s) <= size THEN (IF s = <<>> THEN <<>> ELSE <<s>>)
    ELSE <<SubSeq(s, 1, size)>> \o Paginate(SubSeq(s, size + 1, Len(s)), size)

GenericListings ==
    { Paginate(s, size) :
        s \in UNION {[1..n -> ListVols] : n \in 0..MaxEntries}, size \in {1, 2} }

\* pages of 10, 10, 10 and 0 volumes with distinct ids
BigListing ==
    [p \in 1..3 |->
        [k \in 1..10 |-> Volume(100 + (10 * (p - 1)) + k, Some(S_Foo), Some(ListDate))]]

\* titles Foo, bar, FooBar on one page
FilterListing == << <<VA, VB, Volume(4, Some(S_FooBar), Some(ListDate))>> >>

\* an empty page before a page that holds a volume
GapListing == << <<VA>>, <<>>, <<VB>> >>

Limits == {None} \cup {Some(l) : l \in 0..MaxLimit}
Filters == {None, Some(S_foo)}

\* a URL of the url subcommand: its pieces, each holding the marker
\* "volumeNo=" or not, and the digits that follow it or none
Piece(marker, digits) == [marker |-> marker, digits |-> digits]
A1 == <<Piece(FALSE, None), Piece(TRUE, Some(1))>>
A2 == <<Piece(TRUE, Some(2)), Piece(TRUE, Some(1))>>
A0 == <<Piece(TRUE, None), Piece(FALSE, Some(3))>>
UrlArgs == {A1, A2, A0}
UrlLists == UNION {[1..n -> UrlArgs] : n \in 0..MaxUrls}

\* ID_RE.captures_iter(url).find_map(|c| c.name("vol")): the digits of the
\* first piece in which digits follow the marker
RECURSIVE find_volume_no(_)
find_volume_no(url) ==
    IF url = <<>> THEN None
    ELSE IF Head(url).marker /\ is_some(Head(url).digits) THEN Head(url).digits
    ELSE find_volume_no(Tail(url))

NoVolume == Volume(0, None, None)


(***************************************************************************)
(* State                                                                   *)
(***************************************************************************)
VARIABLES
    \* the command line and the two endpoints
    mode,           \* "member" or "url"
    listing,        \* the pages of the listing endpoint, each a sequence of Volumes
    limit,          \* Option<usize>
    filter,         \* Option<String>
    urls,           \* the URLs main has still to process
    page1,          \* the detail page of volume 1
    \* control
    pc,             \* the place the program is at
    \* process_member
    page, first, num_found, np_vols,
    \* download_np
    vol,            \* the Volume it was called with
    ret,            \* its result when pc = "dnp_ret": "ok" or "err"
    date, title, imgs, full_path,
    pulled,         \* assets the stream has handed to the pool so far
    inflight,       \* transfers in the pool: [i, url, path]
    results,        \* the collected results: [i, res]
    \* the filesystem
    base_exists,    \* the base directory exists
    finals,         \* directories under the base directory: [name, files]
    temp_dir,       \* Option: the files of the temporary directory
    temp_dir_2,     \* Option: the files of its copy under the base directory
    \* history
    pages_fetched,  \* the page numbers requested from the listing endpoint
    snaps,          \* np_vols after each page, before the truncation
    accum,          \* np_vols when the discovery loop ended
    handed,         \* the Volumes download_np was called with
    committed,      \* the Volumes for which download_np renamed a directory
    run,            \* of the current call of download_np: requests, tempdir, fs before
    writes,         \* of the current call: the files its transfers wrote, [i, url, path]
    \* the transfer pool alone
    pool_n, pool_pulled, pool_done

input_vars == <<mode, listing, limit, filter, page1>>
member_vars == <<page, first, num_found, np_vols>>
dnp_vars == <<vol, ret, date, title, imgs, full_path>>
xfer_vars == <<pulled, inflight, results>>
fs_vars == <<base_exists, finals, temp_dir, temp_dir_2>>
disc_hist == <<pages_fetched, snaps, accum>>
run_hist == <<handed, committed, run, writes>>
pool_vars == <<pool_n, pool_pulled, pool_done>>

vars == <<input_vars, urls, pc, member_vars, dnp_vars, xfer_vars, fs_vars,
          disc_hist, run_hist, pool_vars>>

\* the detail endpoint: the page of a volume
detail_page(id) ==
    CASE id = 1 -> page1
      [] id = 2 -> Doc(Some(RawDate), Some(RawTitle(S_bar)), <<>>, <<U2>>)
      [] id = 4 -> Doc(Some(RawDate), Some(RawTitle(S_FooBar)), <<U3>>, <<>>)
      [] OTHER -> Doc(Some(RawDate), Some(RawTitle(S_Foo)), <<>>, <<>>)

\* the listing endpoint: the Volumes of a page, none past the last page
listing_page(n) == IF n <= Len(listing) THEN listing[n] ELSE <<>>

\* Path::exists of a directory under the base directory
exists(name) == \E d \in finals : d.name = name

FsState == [base |-> base_exists, finals |-> finals, copy |-> temp_dir_2]

\* the history of one call of download_np: the requests it issued, whether the
\* detail page arrived, whether it made a temporary directory, the filesystem
\* it started from, and whether a directory was renamed for the same volume
\* by an earlier call
NewRun(fs, again) ==
    [detail_reqs |-> 0, asset_reqs |-> 0, detail_res |-> "none", tempdir |-> FALSE,
     fs |-> fs, again |-> again]

NoRun == NewRun([base |-> FALSE, finals |-> {}, copy |-> None], FALSE)

InitCommon ==
    /\ page = 1 /\ first = TRUE /\ num_found = 0 /\ np_vols = <<>>
    /\ vol = NoVolume /\ ret = "none"
    /\ date = <<>> /\ title = <<>> /\ imgs = <<>> /\ full_path = <<>>
    /\ pulled = 0 /\ inflight = {} /\ results = {}
    /\ finals = {} /\ temp_dir = None /\ temp_dir_2 = None
    /\ pages_fetched = <<>> /\ snaps = <<>> /\ accum = <<>>
    /\ handed = <<>> /\ committed = {} /\ run = NoRun /\ writes = {}
    /\ pool_pulled = 0 /\ pool_done = 0

\* the member subcommand, over the generic listings
InitMember ==
    /\ mode = "member" /\ pc = "member_loop"
    /\ \/ /\ listing \in GenericListings
          /\ limit \in Limits
       \/ /\ listing \in {FilterListing, GapListing}
          /\ limit = None
       \/ /\ listing = BigListing
          /\ limit \in {None, Some(15)}
    /\ filter \in Filters
    /\ urls = <<>>
    /\ page1 = PFull(1)
    /\ base_exists = FALSE

\* the url subcommand
InitUrl ==
    /\ mode = "url" /\ pc = "url_for"
    /\ listing = <<>> /\ limit = None /\ filter = None
    /\ urls \in UrlLists
    /\ page1 \in DetailPages
    /\ base_exists \in BOOLEAN

Init == InitCommon /\ pool_n = 0 /\ (InitMember \/ InitUrl)

(***************************************************************************)
(* process_member                                                          *)
(***************************************************************************)
\* the loop condition without the unconditional first round
loop_condition_mut == num_found > 0

\* while first || num_found > 0
loop_condition == first \/ num_found > 0

\* a discovery loop that ends at a failed page and keeps what it has
process_member_page_mut ==
    /\ pc = "member_loop"
    /\ loop_condition
    /\ first' = FALSE
    /\ pages_fetched' = Append(pages_fetched, page)
    /\ \/ /\ pc' = "retain"
          /\ UNCHANGED <<page, num_found, np_vols, snaps>>
       \/ LET page_np_vols == listing_page(page)
              all == dedup(np_vols \o page_np_vols)
              hit == is_some(limit) /\ Len(all) >= unwrap(limit)
          IN  /\ num_found' = Len(page_np_vols)
              /\ page' = page + 1
              /\ snaps' = Append(snaps, all)
              /\ np_vols' = IF hit THEN truncate(all, unwrap(limit)) ELSE all
              /\ pc' = IF hit THEN "retain" ELSE "member_loop"
    /\ UNCHANGED <<input_vars, urls, dnp_vars, xfer_vars, fs_vars, accum,
                   run_hist, pool_vars>>

\* one iteration of the discovery loop: the request of a page fails, or its
\* Volumes are appended, the sequence is deduplicated and the limit is tested
process_member_page ==
    /\ pc = "member_loop"
    /\ loop_condition
    /\ first' = FALSE
    /\ pages_fetched' = Append(pages_fetched, page)
    /\ \/ /\ pc' = "failed"
          /\ UNCHANGED <<page, num_found, np_vols, snaps>>
       \/ LET page_np_vols == listing_page(page)
              all == dedup(np_vols \o page_np_vols)
              hit == is_some(limit) /\ Len(all) >= unwrap(limit)
          IN  /\ num_found' = Len(page_np_vols)
              /\ page' = page + 1
              /\ snaps' = Append(snaps, all)
              /\ np_vols' = IF hit THEN truncate(all, unwrap(limit)) ELSE all
              /\ pc' = IF hit THEN "retain" ELSE "member_loop"
    /\ UNCHANGED <<input_vars, urls, dnp_vars, xfer_vars, fs_vars, accum,
                   run_hist, pool_vars>>

\* a loop that is left only after a page that held Volumes
process_member_end_mut ==
    /\ pc = "member_loop"
    /\ ~loop_condition /\ num_found > 0
    /\ pc' = "retain"
    /\ UNCHANGED <<input_vars, urls, member_vars, dnp_vars, xfer_vars, fs_vars,
                   disc_hist, run_hist, pool_vars>>

\* the loop condition fails
process_member_end ==
    /\ pc = "member_loop"
    /\ ~loop_condition
    /\ pc' = "retain"
    /\ UNCHANGED <<input_vars, urls, member_vars, dnp_vars, xfer_vars, fs_vars,
                   disc_hist, run_hist, pool_vars>>

\* np_vols.retain(..)
process_member_retain ==
    /\ pc = "retain"
    /\ accum' = np_vols
    /\ np_vols' = retain(build_filter(filter), np_vols)
    /\ pc' = "member_for"
    /\ UNCHANGED <<input_vars, urls, page, first, num_found, dnp_vars, xfer_vars,
                   fs_vars, pages_fetched, snaps, run_hist, pool_vars>>

\* download_np is entered with v
call_download_np(v) ==
    /\ vol' = v
    /\ pc' = "dnp_check"
    /\ handed' = Append(handed, v)
    /\ run' = NewRun(FsState, \E c \in committed : Volume_eq(c, v))
    /\ writes' = {}
    /\ UNCHANGED <<ret, date, title, imgs, full_path, committed>>

\* a loop that calls download_np for the next Volume while the transfers of
\* the call before are running
process_member_for_mut ==
    /\ pc \in {"member_for", "dnp_xfer"}
    /\ mode = "member"
    /\ IF np_vols = <<>>
       THEN /\ pc' = IF pc = "member_for" THEN "done" ELSE pc
            /\ UNCHANGED <<np_vols, dnp_vars, run_hist>>
       ELSE /\ np_vols' = Tail(np_vols)
            /\ call_download_np(Head(np_vols))
    /\ UNCHANGED <<input_vars, urls, page, first, num_found, xfer_vars, fs_vars,
                   disc_hist, pool_vars>>

\* for vol in np_vols
process_member_for ==
    /\ pc = "member_for"
    /\ IF np_vols = <<>>
       THEN /\ pc' = "done"
            /\ UNCHANGED <<np_vols, dnp_vars, run_hist>>
       ELSE /\ np_vols' = Tail(np_vols)
            /\ call_download_np(Head(np_vols))
    /\ UNCHANGED <<input_vars, urls, page, first, num_found, xfer_vars, fs_vars,
                   disc_hist, pool_vars>>

(***************************************************************************)
(* main, url subcommand, and process_one                                   *)
(***************************************************************************)
\* a loop that passes over a URL without volume number
main_url_for_mut ==
    /\ pc = "url_for"
    /\ IF urls = <<>>
       THEN /\ pc' = "done"
            /\ UNCHANGED <<urls, dnp_vars, run_hist>>
       ELSE LET id == find_volume_no(Head(urls))
            IN  /\ urls' = Tail(urls)
                /\ IF is_some(id)
                   THEN call_download_np(Volume(unwrap(id), None, None))
                   ELSE /\ pc' = "url_for"
                        /\ UNCHANGED <<dnp_vars, run_hist>>
    /\ UNCHANGED <<input_vars, member_vars, xfer_vars, fs_vars, disc_hist, pool_vars>>

\* for url in urls: process_one finds the volume number or fails
main_url_for ==
    /\ pc = "url_for"
    /\ IF urls = <<>>
       THEN /\ pc' = "done"
            /\ UNCHANGED <<urls, dnp_vars, run_hist>>
       ELSE LET id == find_volume_no(Head(urls))
            IN  /\ urls' = Tail(urls)
                /\ IF is_some(id)
                   THEN call_download_np(Volume(unwrap(id), None, None))
                   ELSE /\ pc' = "failed"
                        /\ UNCHANGED <<dnp_vars, run_hist>>
    /\ UNCHANGED <<input_vars, member_vars, xfer_vars, fs_vars, disc_hist, pool_vars>>

\* the result of download_np dropped: the loop goes on after an error
download_np_returned_mut ==
    /\ pc = "dnp_ret"
    /\ pc' = IF mode = "member" THEN "member_for" ELSE "url_for"
    /\ vol' = NoVolume /\ ret' = "none"
    /\ date' = <<>> /\ title' = <<>> /\ imgs' = <<>> /\ full_path' = <<>>
    /\ pulled' = 0 /\ inflight' = {} /\ results' = {}
    /\ UNCHANGED <<input_vars, urls, member_vars, fs_vars, disc_hist, run_hist,
                   pool_vars>>

\* download_np has returned to process_member or process_one: `?`
download_np_returned ==
    /\ pc = "dnp_ret"
    /\ pc' = IF ret = "err" THEN "failed"
             ELSE IF mode = "member" THEN "member_for" ELSE "url_for"
    /\ vol' = NoVolume /\ ret' = "none"
    /\ date' = <<>> /\ title' = <<>> /\ imgs' = <<>> /\ full_path' = <<>>
    /\ pulled' = 0 /\ inflight' = {} /\ results' = {}
    /\ UNCHANGED <<input_vars, urls, member_vars, fs_vars, disc_hist, run_hist,
                   pool_vars>>


(***************************************************************************)
(* download_np                                                             *)
(***************************************************************************)
all_ascii_digits(s) == \A k \in 1..Len(s) : is_ascii_digit(s[k])

\* the first check with the title and the id of the name exchanged
already_downloaded_mut(v) ==
    /\ is_some(v.title) /\ is_some(v.date)
    /\ all_ascii_digits(unwrap(v.date))
    /\ exists(unwrap(v.date) \o <<"-">> \o unwrap(v.title) \o <<"-">> \o to_string(v.id))

\* the first check: the Volume carries a title and a date of digits, and the
\* directory they name exists
already_downloaded(v) ==
    /\ is_some(v.title) /\ is_some(v.date)
    /\ all_ascii_digits(unwrap(v.date))
    /\ exists(dir_name(unwrap(v.date), v.id, unwrap(v.title)))

download_np_check ==
    /\ pc = "dnp_check"
    /\ IF already_downloaded(vol)
       THEN pc' = "dnp_ret" /\ ret' = "ok"
       ELSE pc' = "dnp_fetch" /\ ret' = ret
    /\ UNCHANGED <<input_vars, urls, member_vars, vol, date, title, imgs, full_path,
                   xfer_vars, fs_vars, disc_hist, run_hist, pool_vars>>

\* a test for no images that never holds
is_empty_mut(s) == FALSE

\* imgs.is_empty()
is_empty(s) == s = <<>>

\* download_np without the second check
download_np_fetch_mut ==
    /\ pc = "dnp_fetch"
    /\ \/ /\ run' = [run EXCEPT !.detail_reqs = @ + 1, !.detail_res = "err"]
          /\ pc' = "dnp_ret" /\ ret' = "err"
          /\ UNCHANGED <<date, title, imgs, full_path>>
       \/ LET doc == detail_page(vol.id)
              d == extract_date(doc)
              t == extract_title(doc)
              path == dir_name(d.val, vol.id, t.val)
              found == extract_images(doc)
          IN  /\ run' = [run EXCEPT !.detail_reqs = @ + 1, !.detail_res = "ok"]
              /\ IF d.kind = "panic"
                 THEN /\ pc' = "panicked"
                      /\ UNCHANGED <<ret, date, title, imgs, full_path>>
                 ELSE IF d.kind = "err" \/ t.kind = "err"
                 THEN /\ pc' = "dnp_ret" /\ ret' = "err"
                      /\ UNCHANGED <<date, title, imgs, full_path>>
                 ELSE /\ date' = d.val /\ title' = t.val /\ full_path' = path
                      /\ IF is_empty(found)
                         THEN pc' = "dnp_ret" /\ ret' = "ok" /\ imgs' = imgs
                         ELSE pc' = "dnp_mkbase" /\ ret' = ret /\ imgs' = found
    /\ UNCHANGED <<input_vars, urls, member_vars, vol, xfer_vars, fs_vars,
                   disc_hist, handed, committed, writes, pool_vars>>

\* download_np with the title and the date of the Volume it was called with
\* kept when they are present
download_np_fetch_stale_mut ==
    /\ pc = "dnp_fetch"
    /\ \/ /\ run' = [run EXCEPT !.detail_reqs = @ + 1, !.detail_res = "err"]
          /\ pc' = "dnp_ret" /\ ret' = "err"
          /\ UNCHANGED <<date, title, imgs, full_path>>
       \/ LET doc == detail_page(vol.id)
              d == IF is_some(vol.date) THEN Ok(unwrap(vol.date)) ELSE extract_date(doc)
              t == IF is_some(vol.title) THEN Ok(unwrap(vol.title)) ELSE extract_title(doc)
              path == dir_name(d.val, vol.id, t.val)
              found == extract_images(doc)
          IN  /\ run' = [run EXCEPT !.detail_reqs = @ + 1, !.detail_res = "ok"]
              /\ IF d.kind = "panic"
                 THEN /\ pc' = "panicked"
                      /\ UNCHANGED <<ret, date, title, imgs, full_path>>
                 ELSE IF d.kind = "err" \/ t.kind = "err"
                 THEN /\ pc' = "dnp_ret" /\ ret' = "err"
                      /\ UNCHANGED <<date, title, imgs, full_path>>
                 ELSE /\ date' = d.val /\ title' = t.val /\ full_path' = path
                      /\ IF exists(path) \/ is_empty(found)
                         THEN pc' = "dnp_ret" /\ ret' = "ok" /\ imgs' = imgs
                         ELSE pc' = "dnp_mkbase" /\ ret' = ret /\ imgs' = found
    /\ UNCHANGED <<input_vars, urls, member_vars, vol, xfer_vars, fs_vars,
                   disc_hist, handed, committed, writes, pool_vars>>

\* the request of the detail page, the extraction of date, title and images,
\* the second check and the test for no images
download_np_fetch ==
    /\ pc = "dnp_fetch"
    /\ \/ /\ run' = [run EXCEPT !.detail_reqs = @ + 1, !.detail_res = "err"]
          /\ pc' = "dnp_ret" /\ ret' = "err"
          /\ UNCHANGED <<date, title, imgs, full_path>>
       \/ LET doc == detail_page(vol.id)
              d == extract_date(doc)
              t == extract_title(doc)
              path == dir_name(d.val, vol.id, t.val)
              found == extract_images(doc)
          IN  /\ run' = [run EXCEPT !.detail_reqs = @ + 1, !.detail_res = "ok"]
              /\ IF d.kind = "panic"
                 THEN /\ pc' = "panicked"
                      /\ UNCHANGED <<ret, date, title, imgs, full_path>>
                 ELSE IF d.kind = "err" \/ t.kind = "err"
                 THEN /\ pc' = "dnp_ret" /\ ret' = "err"
                      /\ UNCHANGED <<date, title, imgs, full_path>>
                 ELSE /\ date' = d.val /\ title' = t.val /\ full_path' = path
                      /\ IF exists(path) \/ is_empty(found)
                         THEN pc' = "dnp_ret" /\ ret' = "ok" /\ imgs' = imgs
                         ELSE pc' = "dnp_mkbase" /\ ret' = ret /\ imgs' = found
    /\ UNCHANGED <<input_vars, urls, member_vars, vol, xfer_vars, fs_vars,
                   disc_hist, handed, committed, writes, pool_vars>>

\* let _ = std::fs::create_dir_all(path): its failure is ignored
download_np_create_base ==
    /\ pc = "dnp_mkbase"
    /\ pc' = "dnp_mktemp"
    /\ \/ base_exists' = TRUE
       \/ ~base_exists /\ base_exists' = FALSE
    /\ UNCHANGED <<input_vars, urls, member_vars, dnp_vars, xfer_vars, finals,
                   temp_dir, temp_dir_2, disc_hist, run_hist, pool_vars>>

\* let temp_dir = tempdir()?
download_np_tempdir ==
    /\ pc = "dnp_mktemp"
    /\ \/ /\ temp_dir' = Some({})
          /\ run' = [run EXCEPT !.tempdir = TRUE]
          /\ pc' = "dnp_xfer" /\ ret' = ret
       \/ /\ pc' = "dnp_ret" /\ ret' = "err"
          /\ UNCHANGED <<temp_dir, run>>
    /\ UNCHANGED <<input_vars, urls, member_vars, vol, date, title, imgs, full_path,
                   xfer_vars, base_exists, finals, temp_dir_2, disc_hist, handed,
                   committed, writes, pool_vars>>

\* a pool that takes one transfer more
pool_has_room_mut(k) == k <= Concurrency

\* buffer_unordered(20): the pool takes a transfer from the stream while it
\* holds fewer than 20
pool_has_room(k) == k < Concurrency

can_pull == pulled < Len(imgs) /\ pool_has_room(Cardinality(inflight))

\* file names numbered by the transfers that have ended, not by the place
make_transfer_mut(i, url) ==
    [i |-> i, url |-> url,
     path |-> asset_file_name(date, vol.id, title, Cardinality(results),
                              extract_extension(url))]

\* the closure of the stream: the file name of asset i (from 0) is fixed
\* when the transfer is made
make_transfer(i, url) ==
    [i |-> i, url |-> url,
     path |-> asset_file_name(date, vol.id, title, i, extract_extension(url))]

download_np_pull ==
    /\ pc = "dnp_xfer"
    /\ can_pull
    /\ inflight' = inflight \cup {make_transfer(pulled, imgs[pulled + 1])}
    /\ pulled' = pulled + 1
    /\ run' = [run EXCEPT !.asset_reqs = @ + 1]
    /\ UNCHANGED <<input_vars, urls, pc, member_vars, dnp_vars, results, fs_vars,
                   disc_hist, handed, committed, writes, pool_vars>>

\* File::create and write_all: the file of that name holds these bytes
write_file(files, name, data) ==
    {f \in files : f.name # name} \cup {[name |-> name, data |-> data]}

Bytes(url, whole) == [url |-> url, whole |-> whole]

\* download_image: one transfer of the pool ends; the pool is polled only
\* when it is full or the stream is exhausted
download_image(t) ==
    /\ pc = "dnp_xfer"
    /\ t \in inflight
    /\ ~can_pull
    /\ inflight' = inflight \ {t}
    /\ \/ \* the request, the status or File::create fails
          /\ results' = results \cup {[i |-> t.i, res |-> "err"]}
          /\ UNCHANGED <<temp_dir, writes>>
       \/ \* write_all fails after the file was created
          /\ results' = results \cup {[i |-> t.i, res |-> "err"]}
          /\ temp_dir' = Some(write_file(unwrap(temp_dir), t.path, Bytes(t.url, FALSE)))
          /\ writes' = writes \cup {t}
       \/ /\ results' = results \cup {[i |-> t.i, res |-> "ok"]}
          /\ temp_dir' = Some(write_file(unwrap(temp_dir), t.path, Bytes(t.url, TRUE)))
          /\ writes' = writes \cup {t}
    /\ UNCHANGED <<input_vars, urls, pc, member_vars, dnp_vars, pulled, base_exists,
                   finals, temp_dir_2, disc_hist, handed, committed, run, pool_vars>>

\* a return that keeps the temporary directory
return_dropping_mut(r) ==
    /\ pc' = "dnp_ret" /\ ret' = r
    /\ temp_dir' = temp_dir

\* download_np returns r: temp_dir, if made, is dropped and so removed
return_dropping(r) ==
    /\ pc' = "dnp_ret" /\ ret' = r
    /\ temp_dir' = None

\* the results collected without `?`: an error of a transfer is dropped
download_np_collect_mut ==
    /\ pc = "dnp_xfer"
    /\ pulled = Len(imgs) /\ inflight = {}
    /\ pc' = "dnp_copy" /\ UNCHANGED <<ret, temp_dir>>
    /\ UNCHANGED <<input_vars, urls, member_vars, vol, date, title, imgs, full_path,
                   xfer_vars, base_exists, finals, temp_dir_2, disc_hist, run_hist,
                   pool_vars>>

\* .collect::<Vec<_>>().await.into_iter().collect::<Result<_>>()?: all
\* transfers have ended; one error fails download_np
download_np_collect ==
    /\ pc = "dnp_xfer"
    /\ pulled = Len(imgs) /\ inflight = {}
    /\ IF \E r \in results : r.res = "err"
       THEN return_dropping("err")
       ELSE pc' = "dnp_copy" /\ UNCHANGED <<ret, temp_dir>>
    /\ UNCHANGED <<input_vars, urls, member_vars, vol, date, title, imgs, full_path,
                   xfer_vars, base_exists, finals, temp_dir_2, disc_hist, run_hist,
                   pool_vars>>

\* fs_extra::dir::copy(&temp_dir, path, ..), first part: the directory of the
\* same name is created under the base directory
copy_create_dir ==
    /\ pc = "dnp_copy"
    /\ \/ /\ base_exists
          /\ temp_dir_2' = Some({})
          /\ pc' = "dnp_copyfiles"
          /\ UNCHANGED <<ret, temp_dir>>
       \/ /\ return_dropping("err")
          /\ UNCHANGED temp_dir_2
    /\ UNCHANGED <<input_vars, urls, member_vars, vol, date, title, imgs, full_path,
                   xfer_vars, base_exists, finals, disc_hist, run_hist, pool_vars>>

names(files) == {f.name : f \in files}

\* fs_extra::dir::copy, second part: the files are copied one by one, in the
\* order the directory is read in
copy_file ==
    /\ pc = "dnp_copyfiles"
    /\ \E f \in unwrap(temp_dir) :
         /\ f.name \notin names(unwrap(temp_dir_2))
         /\ \/ /\ temp_dir_2' = Some(unwrap(temp_dir_2) \cup {f})
               /\ UNCHANGED <<pc, ret, temp_dir>>
            \/ /\ return_dropping("err")
               /\ UNCHANGED temp_dir_2
    /\ UNCHANGED <<input_vars, urls, member_vars, vol, date, title, imgs, full_path,
                   xfer_vars, base_exists, finals, disc_hist, run_hist, pool_vars>>

\* rename(2) of a directory: the target is absent or an empty directory
rename_dir(dirs, files, name) ==
    {d \in dirs : d.name # name} \cup {[name |-> name, files |-> files]}

\* a rename that does not wait for the copy to end
download_np_rename_mut ==
    /\ pc = "dnp_copyfiles"
    /\ \/ /\ \A d \in finals : d.name = full_path => d.files = {}
          /\ finals' = rename_dir(finals, unwrap(temp_dir_2), full_path)
          /\ temp_dir_2' = None
          /\ committed' = committed \cup {vol}
          /\ return_dropping("ok")
       \/ /\ return_dropping("err")
          /\ UNCHANGED <<finals, temp_dir_2, committed>>
    /\ UNCHANGED <<input_vars, urls, member_vars, vol, date, title, imgs, full_path,
                   xfer_vars, base_exists, disc_hist, handed, run, writes, pool_vars>>

\* std::fs::rename(&temp_dir_2, &full_path)?, and the return of download_np
download_np_rename ==
    /\ pc = "dnp_copyfiles"
    /\ names(unwrap(temp_dir_2)) = names(unwrap(temp_dir))
    /\ \/ /\ \A d \in finals : d.name = full_path => d.files = {}
          /\ finals' = rename_dir(finals, unwrap(temp_dir_2), full_path)
          /\ temp_dir_2' = None
          /\ committed' = committed \cup {vol}
          /\ return_dropping("ok")
       \/ /\ return_dropping("err")
          /\ UNCHANGED <<finals, temp_dir_2, committed>>
    /\ UNCHANGED <<input_vars, urls, member_vars, vol, date, title, imgs, full_path,
                   xfer_vars, base_exists, disc_hist, handed, run, writes, pool_vars>>

(***************************************************************************)
(* The program                                                             *)
(***************************************************************************)
Next ==
    \/ process_member_page
    \/ process_member_end
    \/ process_member_retain
    \/ process_member_for
    \/ main_url_for
    \/ download_np_returned
    \/ download_np_check
    \/ download_np_fetch
    \/ download_np_create_base
    \/ download_np_tempdir
    \/ download_np_pull
    \/ \E t \in inflight : download_image(t)
    \/ download_np_collect
    \/ copy_create_dir
    \/ copy_file
    \/ download_np_rename

Spec == Init /\ [][Next]_vars

(***************************************************************************)
(* The member subcommand alone, every request and every operation of the   *)
(* filesystem resolving: a step that can be taken is taken in the end.     *)
(***************************************************************************)
InitMemberRun == InitCommon /\ pool_n = 0 /\ InitMember

NextMember ==
    \/ process_member_page
    \/ process_member_end
    \/ process_member_retain
    \/ process_member_for
    \/ download_np_returned
    \/ download_np_check
    \/ download_np_fetch
    \/ download_np_create_base
    \/ download_np_tempdir
    \/ download_np_pull
    \/ \E t \in inflight : download_image(t)
    \/ download_np_collect
    \/ copy_create_dir
    \/ copy_file
    \/ download_np_rename

SpecMember == InitMemberRun /\ [][NextMember]_vars /\ WF_vars(NextMember)



(***************************************************************************)
(* The transfer pool of download_np alone, for asset lists longer than the *)
(* pool: it counts the transfers the stream has handed to the pool and the *)
(* transfers that have ended.                                              *)
(***************************************************************************)
InitPool ==
    /\ InitCommon
    /\ mode = "pool" /\ pc = "dnp_xfer"
    /\ listing = <<>> /\ limit = None /\ filter = None /\ urls = <<>>
    /\ page1 = PFull(0) /\ base_exists = TRUE
    /\ pool_n \in 0..MaxPoolAssets

\* buffer_unordered: the next transfer is taken from the stream
pool_pull ==
    /\ pool_pulled < pool_n
    /\ pool_has_room(pool_pulled - pool_done)
    /\ pool_pulled' = pool_pulled + 1
    /\ UNCHANGED <<input_vars, urls, pc, member_vars, dnp_vars, xfer_vars, fs_vars,
                   disc_hist, run_hist, pool_n, pool_done>>

\* buffer_unordered: one of the transfers in the pool ends
pool_complete ==
    /\ pool_pulled - pool_done > 0
    /\ ~(pool_pulled < pool_n /\ pool_has_room(pool_pulled - pool_done))
    /\ pool_done' = pool_done + 1
    /\ UNCHANGED <<input_vars, urls, pc, member_vars, dnp_vars, xfer_vars, fs_vars,
                   disc_hist, run_hist, pool_n, pool_pulled>>

NextPool == pool_pull \/ pool_complete

SpecPool == InitPool /\ [][NextPool]_vars


(***************************************************************************)
(* Properties                                                              *)
(***************************************************************************)
Range(s) == {s[k] : k \in 1..Len(s)}

InDownloadNp ==
    pc \in {"dnp_check", "dnp_fetch", "dnp_mkbase", "dnp_mktemp", "dnp_xfer",
            "dnp_copy", "dnp_copyfiles", "dnp_ret"}

\* the name of the directory of volume id, from its detail page
DetailDirName(id) ==
    dir_name(extract_date(detail_page(id)).val, id, extract_title(detail_page(id)).val)

\* the assets of volume id
Assets(id) == extract_images(detail_page(id))

\* one whole file for every asset of volume id, each under the name of its place
WholeFiles(id) ==
    { [name |-> DetailDirName(id) \o <<"-", "i", "m", "g">> \o fmt03(k)
                  \o extract_extension(Assets(id)[k]),
       data |-> Bytes(Assets(id)[k], TRUE)] : k \in 1..Len(Assets(id)) }

AllTransfersSucceeded ==
    /\ inflight = {} /\ pulled = Len(imgs)
    /\ {r.i : r \in results} = 0..(Len(imgs) - 1)
    /\ \A r \in results : r.res = "ok"

C1_Populated ==
    \A d \in finals :
        \E v \in Range(handed) :
            /\ d.name = DetailDirName(v.id)
            /\ d.files = WholeFiles(v.id)
            /\ Cardinality(d.files) = Len(Assets(v.id))

C1_Step ==
    /\ finals \subseteq finals'
    /\ \A d \in finals' \ finals :
          /\ pc = "dnp_copyfiles" /\ pc' = "dnp_ret"
          /\ ~exists(d.name)
          /\ d.name = full_path
          /\ AllTransfersSucceeded
          /\ Cardinality(d.files) = Len(imgs)

\* C1: a destination directory that exists holds one whole file for every
\* asset of its volume; a directory appears under its final name in one step,
\* the rename, taken only after every transfer of the volume has succeeded,
\* and is never changed afterwards.
C1_CommitAtomic == [](C1_Populated) /\ [][C1_Step]_vars

\* a directory of three files has been committed
C1_Witness == \E d \in finals : Cardinality(d.files) = 3


\* C2: once a transfer of the call has failed, download_np goes on to no copy
\* and no rename, no directory exists under the final name, and the call
\* returns an error.
C2_FailedAssetNoDirectory ==
    (\E r \in results : r.res = "err") =>
        /\ pc \in {"dnp_xfer", "dnp_ret"}
        /\ ~exists(full_path)
        /\ temp_dir_2 = None
        /\ finals = run.fs.finals
        /\ pc = "dnp_ret" => ret = "err"

\* the last of three transfers failed, the first succeeded, and the call
\* has returned
C2_Witness ==
    /\ pc = "dnp_ret" /\ ret = "err" /\ Len(imgs) = 3
    /\ [i |-> 2, res |-> "err"] \in results
    /\ [i |-> 0, res |-> "ok"] \in results

\* the Volumes of the pages 1..n of the listing, in order
RECURSIVE Flat(_)
Flat(n) == IF n = 0 THEN <<>> ELSE Flat(n - 1) \o listing_page(n)

\* the first Volume of s with the id of v
RECURSIVE FirstWithId(_, _)
FirstWithId(s, id) ==
    IF Head(s).id = id THEN Head(s) ELSE FirstWithId(Tail(s), id)

DistinctIds(s) == \A i, j \in 1..Len(s) : s[i].id = s[j].id => i = j

\* C3: when the discovery loop has ended, the accumulated sequence holds no
\* id twice, and each entry is the first Volume of that id in the pages read.
C3_EachIdOnce ==
    pc = "retain" =>
        /\ DistinctIds(np_vols)
        /\ \A k \in 1..Len(np_vols) :
              np_vols[k] = FirstWithId(Flat(Len(pages_fetched)), np_vols[k].id)

\* the Volume carries a title and a date of digits, equal to those of the
\* detail page
CarriesDetailValues(v) ==
    /\ is_some(v.title) /\ is_some(v.date)
    /\ all_ascii_digits(unwrap(v.date))
    /\ Ok(unwrap(v.title)) = extract_title(detail_page(v.id))
    /\ Ok(unwrap(v.date)) = extract_date(detail_page(v.id))

\* C4: a call of download_np for a volume that an earlier call has committed
\* issues at most the request of the detail page (none when the Volume carries
\* the title and the all-digit date of the detail page), starts no transfer,
\* makes no temporary directory, leaves the filesystem as it found it and,
\* unless the request of the detail page fails, returns success; one directory
\* exists under the name of the volume.
C4_SecondRunIdle ==
    (InDownloadNp /\ run.again) =>
        /\ pc \in {"dnp_check", "dnp_fetch", "dnp_ret"}
        /\ run.detail_reqs <= 1 /\ run.asset_reqs = 0 /\ ~run.tempdir
        /\ FsState = run.fs /\ temp_dir = None
        /\ CarriesDetailValues(vol) => run.detail_reqs = 0
        /\ pc = "dnp_ret" => (ret = "ok" \/ run.detail_res = "err")
        /\ Cardinality({d \in finals : d.name = DetailDirName(vol.id)}) = 1

\* a second call for a committed volume has returned success after the one
\* request of the detail page
C4_Witness ==
    /\ pc = "dnp_ret" /\ run.again /\ ret = "ok"
    /\ run.detail_reqs = 1 /\ run.detail_res = "ok"

\* C5: the pages are requested in the order 1, 2, 3, ...; without a limit no
\* page is requested after an empty one, the loop ends right after the first
\* empty page N with the Volumes of the pages 1..N-1 (the very sequence when
\* their ids are distinct), and the listing of 10, 10, 10, 0 Volumes takes 4
\* requests and gives 30 Volumes.
C5_StopsAtFirstEmptyPage ==
    mode = "member" =>
        /\ \A k \in 1..Len(pages_fetched) : pages_fetched[k] = k
        /\ limit = None =>
              /\ \A k \in 1..Len(pages_fetched) :
                    k < Len(pages_fetched) => listing_page(k) # <<>>
              /\ pc = "retain" =>
                    LET n == Len(pages_fetched)
                    IN  /\ n >= 1
                        /\ listing_page(n) = <<>>
                        /\ Range(np_vols) \subseteq Range(Flat(n - 1))
                        /\ {v.id : v \in Range(np_vols)} = {v.id : v \in Range(Flat(n - 1))}
                        /\ DistinctIds(Flat(n - 1)) => np_vols = Flat(n - 1)
                        /\ listing = BigListing => n = 4 /\ Len(np_vols) = 30

\* the loop has ended on the listing of 10, 10, 10, 0 Volumes
C5_Witness ==
    /\ pc = "retain" /\ limit = None /\ listing = BigListing
    /\ Len(pages_fetched) = 4

\* C6: with a limit L a further page is requested only while the sequence
\* held after the page before has fewer than L entries and that page was not
\* empty; the loop ends with the first L entries of the sequence when it has
\* at least L, and with the whole sequence when the listing ended first; the
\* listing of 10, 10, 10, 0 Volumes with L = 15 takes 2 requests and gives the
\* first 15 Volumes.
C6_LimitStopsAndTruncates ==
    (mode = "member" /\ is_some(limit)) =>
        LET l == unwrap(limit)
            n == Len(snaps)
        IN  /\ n <= Len(pages_fetched) /\ Len(pages_fetched) <= n + 1
            /\ \A k \in 1..n :
                  (k < n \/ pc = "member_loop") =>
                     (Len(snaps[k]) < l /\ (k < n => listing_page(k) # <<>>))
            /\ pc = "retain" =>
                  /\ n >= 1 /\ Len(pages_fetched) = n
                  /\ IF Len(snaps[n]) >= l
                     THEN /\ Len(np_vols) = l
                          /\ np_vols = SubSeq(snaps[n], 1, l)
                     ELSE /\ np_vols = snaps[n]
                          /\ listing_page(n) = <<>>
                  /\ (listing = BigListing /\ l = 15) =>
                        /\ n = 2 /\ Len(np_vols) = 15
                        /\ \A k \in 1..15 : np_vols[k].id = 100 + k

\* the loop has ended on the listing of 10, 10, 10, 0 Volumes with limit 15
C6_Witness ==
    /\ pc = "retain" /\ limit = Some(15) /\ listing = BigListing
    /\ Len(np_vols) = 15

\* the title holds the word, letter case aside
ContainsIgnoringCase(text, word) ==
    \E a \in 1..(Len(text) + 1) :
        /\ a + Len(word) <= Len(text) + 1
        /\ SubSeq(to_lowercase(text), a, a + Len(word) - 1) = to_lowercase(word)

Survives(v) ==
    /\ v.title # None
    /\ filter # None => ContainsIgnoringCase(v.title[1], filter[1])

\* s can be got from t by leaving entries out
RECURSIVE IsSubsequence(_, _)
IsSubsequence(s, t) ==
    IF s = <<>> THEN TRUE
    ELSE IF t = <<>> THEN FALSE
    ELSE IF Head(s) = Head(t) THEN IsSubsequence(Tail(s), Tail(t))
    ELSE IsSubsequence(s, Tail(t))

AfterRetain ==
    /\ mode = "member"
    /\ \/ pc \in {"member_for", "done"}
       \/ InDownloadNp
       \/ handed # <<>>

\* C7: the Volumes handed to download_np, followed by those still to be
\* handed, are the entries of the accumulated sequence whose title is present
\* and holds the pattern, letter case aside, in their order; when the run is
\* done all of them were handed; the titles Foo, bar, FooBar under the
\* pattern foo leave Foo, FooBar.
C7_FilterSubsequence ==
    AfterRetain =>
        LET surv == handed \o np_vols
        IN  /\ IsSubsequence(surv, accum)
            /\ \A k \in 1..Len(surv) : Survives(surv[k])
            /\ Len(surv) = Cardinality({k \in 1..Len(accum) : Survives(accum[k])})
            /\ pc = "done" => np_vols = <<>>
            /\ (listing = FilterListing /\ filter = Some(S_foo)) =>
                  [k \in 1..Len(surv) |-> surv[k].title] = <<Some(S_Foo), Some(S_FooBar)>>

\* the run over the titles Foo, bar, FooBar under the pattern foo is done
C7_Witness ==
    /\ pc = "done" /\ listing = FilterListing /\ filter = Some(S_foo)
    /\ Len(handed) = 2

\* n as three decimal digits
ThreeDigits(n) ==
    <<DigitChars[((n \div 100) % 10) + 1], DigitChars[((n \div 10) % 10) + 1],
      DigitChars[(n % 10) + 1]>>

\* the extension of each asset URL of the model, lower-cased, with its dot
ExpectedExt(url) ==
    CASE url = U1 -> <<".", "jpg">>
      [] url = U2 -> <<".", "png">>
      [] url = U3 -> <<>>

\* C8: in a call of download_np, the transfer of the asset at place i (from
\* 0) is that of url_i and writes the file {date}-{id}-{title}-img{i+1 in
\* three digits}{ext_i} only; no two transfers have the same file name, and
\* every file of the temporary directory holds bytes of the asset of its name.
C8_FileNames ==
    InDownloadNp =>
        /\ \A t \in writes \cup inflight :
              /\ t.i < Len(imgs) /\ t.url = imgs[t.i + 1]
              /\ t.path =
                    date \o <<"-">> \o to_string(vol.id) \o <<"-">> \o title
                       \o <<"-", "i", "m", "g">> \o ThreeDigits(t.i + 1)
                       \o ExpectedExt(t.url)
        /\ \A t1, t2 \in writes \cup inflight : t1.path = t2.path => t1 = t2
        /\ \A r \in results : Cardinality({t \in writes : t.i = r.i}) <= 1
        /\ is_some(temp_dir) =>
              /\ Cardinality(unwrap(temp_dir)) = Cardinality(writes)
              /\ \A f \in unwrap(temp_dir) :
                    \E t \in writes : t.path = f.name /\ t.url = f.data.url

\* the third transfer has written its file while the first is still running
C8_Witness ==
    /\ pc = "dnp_xfer" /\ Len(imgs) = 3
    /\ \E t \in inflight : t.i = 0
    /\ \E t \in writes : t.i = 2

\* C9: the transfers taken from the stream and not yet ended are at most 20.
C9_AtMost20InFlight ==
    /\ Cardinality(inflight) <= 20
    /\ pool_done <= pool_pulled /\ pool_pulled <= pool_n
    /\ pool_pulled - pool_done <= 20

\* 20 transfers are in the pool and the stream holds more
C9_Witness ==
    /\ pool_n > 20 /\ pool_pulled < pool_n
    /\ pool_pulled - pool_done = 20

\* the Volume of the call carries a title and a date of digits, and the
\* directory they name existed when download_np was called
CalledOnExisting ==
    /\ is_some(vol.title) /\ is_some(vol.date)
    /\ \A k \in 1..Len(vol.date[1]) : vol.date[1][k] \in Range(DigitChars)
    /\ \E d \in run.fs.finals :
          d.name = vol.date[1] \o <<"-">> \o to_string(vol.id) \o <<"-">> \o vol.title[1]

\* C10: such a call issues no request, makes no temporary directory, leaves
\* the filesystem as it is and returns success.
C10_SkipWithoutNetwork ==
    (InDownloadNp /\ CalledOnExisting) =>
        /\ pc \in {"dnp_check", "dnp_ret"}
        /\ run.detail_reqs = 0 /\ run.asset_reqs = 0 /\ ~run.tempdir
        /\ FsState = run.fs /\ temp_dir = None
        /\ pc = "dnp_ret" => ret = "ok"

\* such a call has returned
C10_Witness == pc = "dnp_ret" /\ CalledOnExisting /\ ret = "ok"

\* the entries of the accumulated sequence that pass the filter, in order
Survivors == SelectSeq(accum, LAMBDA v : Survives(v))

C11_Aborted ==
    (mode = "member" /\ pc = "failed" /\ handed # <<>>) =>
        /\ handed \o np_vols = Survivors
        /\ run.detail_res # "ok" => run.asset_reqs = 0
        /\ finals = run.fs.finals
        /\ \A c \in committed : exists(DetailDirName(c.id))

C11_Step ==
    mode = "member" =>
        /\ pc # "failed"
        /\ (pc = "dnp_ret" /\ ret = "err") =>
              /\ pc' = "failed"
              /\ handed' = handed /\ np_vols' = np_vols
              /\ run' = run /\ finals' = finals /\ committed' = committed

\* C11: in a member run, when download_np returns an error for the j-th
\* surviving Volume the run ends with it: the Volumes handed to download_np
\* are the first j survivors, the later ones are left in the queue and no
\* step follows, so no request and no directory is made for them; every
\* directory committed before is still there.
C11_AbortsAtFirstFailure == [](C11_Aborted) /\ [][C11_Step]_vars

\* the second of three survivors has failed after the first was committed
C11_Witness ==
    /\ mode = "member" /\ pc = "failed"
    /\ Len(handed) = 2 /\ Len(np_vols) = 1
    /\ exists(DetailDirName(handed[1].id))


\* nothing of download_np has happened: no call, no request, no directory
NothingStarted ==
    /\ handed = <<>> /\ committed = {} /\ run = NoRun /\ writes = {}
    /\ ~base_exists /\ finals = {} /\ temp_dir = None /\ temp_dir_2 = None

\* C12: in a member run, when the request or the parsing of a listing page
\* fails the run ends there with nothing of download_np started, whatever
\* the pages before have given; download_np is called only after every page
\* requested has been answered and the loop has ended.
C12_DiscoveryFailureStartsNothing ==
    mode = "member" =>
        /\ Len(snaps) < Len(pages_fetched) => (pc = "failed" /\ NothingStarted)
        /\ pc \in {"member_loop", "retain"} => NothingStarted
        /\ handed # <<>> =>
              /\ Len(snaps) = Len(pages_fetched)
              /\ pc \notin {"member_loop", "retain"}

\* the second page has failed after the first gave a Volume
C12_Witness ==
    /\ mode = "member" /\ pc = "failed"
    /\ Len(pages_fetched) = 2 /\ Len(snaps) = 1 /\ np_vols # <<>>


\* the detail page of the Volume of the call gives a date and a title and
\* no asset
NoAssets ==
    /\ extract_date(detail_page(vol.id)).kind = "ok"
    /\ extract_title(detail_page(vol.id)).kind = "ok"
    /\ Assets(vol.id) = <<>>

\* C13: a call of download_np for a volume whose asset list is empty issues
\* no asset request, makes no temporary directory, creates neither the base
\* directory nor a directory under it, and returns success once the detail
\* page has arrived.
C13_NoAssetsNothingCreated ==
    (InDownloadNp /\ NoAssets) =>
        /\ pc \in {"dnp_check", "dnp_fetch", "dnp_ret"}
        /\ run.asset_reqs = 0 /\ ~run.tempdir
        /\ FsState = run.fs /\ temp_dir = None
        /\ (pc = "dnp_ret" /\ run.detail_res = "ok") => ret = "ok"

\* such a call has returned success with no base directory and no
\* directory of the volume
C13_Witness ==
    /\ pc = "dnp_ret" /\ NoAssets /\ run.detail_res = "ok" /\ ret = "ok"
    /\ ~base_exists /\ ~exists(full_path) /\ full_path # <<>>


\* a raw date of the shape YYYY-MM-DD, anything after it
DateShaped(raw) ==
    /\ Len(raw) >= 10
    /\ \A k \in {1, 2, 3, 4, 6, 7, 9, 10} : is_ascii_digit(raw[k])
    /\ raw[5] = "-" /\ raw[8] = "-"

\* C14: the extraction of the date never crashes; once the detail page has
\* arrived, either the raw date has the shape YYYY-MM-DD and the date is made
\* of its characters at the offsets 0-3, 5-6 and 8-9 ("2023-05-07T" gives
\* "20230507"), or download_np returns an error and no name is built.
C14_DateOrError ==
    /\ pc # "panicked"
    /\ (InDownloadNp /\ run.detail_res = "ok") =>
          LET doc == detail_page(vol.id)
              raw == IF is_some(doc.date_raw)
                     THEN remove_newlines(trim(unwrap(doc.date_raw))) ELSE <<>>
          IN  IF is_some(doc.date_raw) /\ DateShaped(raw)
              THEN \/ pc = "dnp_ret" /\ ret = "err" /\ ~is_some(doc.title_raw)
                   \/ /\ date = <<raw[1], raw[2], raw[3], raw[4], raw[6], raw[7],
                                   raw[9], raw[10]>>
                      /\ doc.date_raw = Some(RawDate) => date = ListDate
              ELSE pc = "dnp_ret" /\ ret = "err" /\ full_path = <<>>


\* no call of download_np is under way: no Volume, no transfer, no
\* temporary directory
Quiet ==
    /\ vol = NoVolume /\ ret = "none"
    /\ pulled = 0 /\ inflight = {} /\ results = {}
    /\ temp_dir = None

C15_Quiet ==
    mode = "member" =>
        /\ ~InDownloadNp => Quiet
        /\ (~InDownloadNp /\ pc # "failed") => temp_dir_2 = None
        /\ InDownloadNp =>
              /\ handed # <<>> /\ vol = handed[Len(handed)]
              /\ handed = SubSeq(Survivors, 1, Len(handed))
        /\ pc = "dnp_ret" => (inflight = {} /\ temp_dir = None)

C15_Step ==
    mode = "member" =>
        /\ handed' # handed =>
              /\ pc = "member_for" /\ Quiet /\ temp_dir_2 = None
              /\ np_vols # <<>> /\ handed' = Append(handed, Head(np_vols))
        /\ (pc = "dnp_ret" /\ pc' = "member_for") =>
              /\ ret = "ok"
              /\ \/ already_downloaded(vol)
                 \/ exists(full_path)
                 \/ is_empty(Assets(vol.id))

\* C15: in a member run download_np is called for the survivors one after
\* the other in their order: a call starts only when the call before has
\* returned success (committed, skipped or without assets) and has left no
\* transfer, no temporary directory and no copy behind, so all transfers and
\* directories in progress belong to the one Volume of the current call.
C15_OneAtATime == [](C15_Quiet) /\ [][C15_Step]_vars

\* transfers of the second survivor are running after the first was committed
C15_Witness ==
    /\ mode = "member" /\ pc = "dnp_xfer"
    /\ Len(handed) = 2 /\ inflight # {}
    /\ exists(DetailDirName(handed[1].id))


\* C16: the temporary directory exists only between its creation and the
\* return of the call that made it: when download_np has returned, after the
\* commit, a failed transfer, a failed copy or a failed rename, it is gone.
C16_TempDirRemoved ==
    /\ is_some(temp_dir) =>
          (pc \in {"dnp_xfer", "dnp_copy", "dnp_copyfiles"} /\ run.tempdir)
    /\ (pc = "dnp_ret" \/ ~InDownloadNp) => temp_dir = None

\* a call that made a temporary directory has returned an error after the
\* copy under the base directory was begun
C16_Witness ==
    /\ pc = "dnp_ret" /\ run.tempdir /\ ret = "err"
    /\ is_some(temp_dir_2) /\ temp_dir = None


\* the Volume of the call carries a title or a date other than those of its
\* detail page
Disagree ==
    \/ vol.title # None /\ Ok(vol.title[1]) # extract_title(detail_page(vol.id))
    \/ vol.date # None /\ Ok(vol.date[1]) # extract_date(detail_page(vol.id))

\* the name of the directory of volume 1 as its detail page in the member
\* runs gives it: "20230507-1-Foo"
DetailName1 ==
    <<"2", "0", "2", "3", "0", "5", "0", "7", "-", "1", "-", "F", "o", "o">>

C17_Names ==
    (InDownloadNp /\ full_path # <<>>) =>
        /\ full_path = DetailDirName(vol.id)
        /\ (mode = "member" /\ vol.id = 1) => full_path = DetailName1
        /\ \A t \in inflight \cup writes :
              SubSeq(t.path, 1, Len(full_path)) = full_path
        /\ is_some(temp_dir) =>
              \A f \in unwrap(temp_dir) : SubSeq(f.name, 1, Len(full_path)) = full_path

C17_Step ==
    /\ \A d \in finals' \ finals : d.name = DetailDirName(vol.id)
    /\ (pc = "dnp_fetch" /\ run'.detail_res = "ok" /\ pc' # "panicked"
          /\ extract_date(detail_page(vol.id)).kind = "ok"
          /\ extract_title(detail_page(vol.id)).kind = "ok") =>
             IF exists(DetailDirName(vol.id)) \/ Assets(vol.id) = <<>>
             THEN pc' = "dnp_ret" /\ ret' = "ok"
             ELSE pc' = "dnp_mkbase"

\* C17: after the extraction the destination of a call of download_np is
\* the directory named by the date and the title of the detail page, also
\* when the Volume handed in carries others: that directory is the one
\* tested by the second check and the one committed, and every asset file
\* name begins with its name.
C17_DetailPageNames == [](C17_Names) /\ [][C17_Step]_vars

\* a call for a Volume with a stale title and date has committed the
\* directory named by the detail page
C17_Witness ==
    /\ pc = "dnp_ret" /\ ret = "ok" /\ Disagree
    /\ finals # run.fs.finals
    /\ \E d \in finals \ run.fs.finals : d.name = DetailName1


\* the volume number written in each URL of the model: "...volumeNo=1",
\* "volumeNo=2&volumeNo=1", and a URL in which no digits follow the marker
UrlId(u) ==
    CASE u = A1 -> Some(1)
      [] u = A2 -> Some(2)
      [] u = A0 -> None

C18_Ended ==
    mode = "url" =>
        /\ pc \in {"url_for", "failed", "done"} => Quiet
        /\ Len(handed) + Len(urls) <= MaxUrls
        /\ pc = "failed" => \A c \in committed : exists(DetailDirName(c.id))
        /\ pc = "done" => urls = <<>>

C18_Step ==
    mode = "url" =>
        /\ pc # "failed"
        /\ (urls' # urls \/ handed' # handed) =>
              /\ pc = "url_for" /\ urls # <<>> /\ urls' = Tail(urls)
              /\ IF UrlId(Head(urls)) = None
                 THEN /\ pc' = "failed"
                      /\ handed' = handed /\ run' = run /\ committed' = committed
                      /\ FsState' = FsState /\ temp_dir' = None
                 ELSE /\ pc' = "dnp_check"
                      /\ handed' = Append(handed, Volume(UrlId(Head(urls))[1], None, None))
        /\ (pc = "dnp_ret" /\ ret = "err") => pc' = "failed"

\* C18: in a url run the URLs are taken one at a time from the front, each
\* after the call for the one before has returned success; a URL without
\* volume number ends the run at once, with no call of download_np and no
\* request for it, the later URLs left untaken and no step after it; the
\* directories committed before are still there.
C18_UrlParseErrorEndsRun == [](C18_Ended) /\ [][C18_Step]_vars

\* the second of three URLs has no volume number; the first was committed
C18_Witness ==
    /\ mode = "url" /\ pc = "failed"
    /\ Len(handed) = 1 /\ Len(urls) = 1 /\ run.detail_res = "ok"
    /\ ret = "none" /\ exists(DetailDirName(handed[1].id))
    /\ handed[1] \in committed


\* the run has ended: with the first error, or with every survivor handed
\* to download_np and committed, skipped or without assets
Ended ==
    \/ pc = "failed"
    \/ /\ pc = "done" /\ np_vols = <<>> /\ handed = Survivors
       /\ \A k \in 1..Len(handed) :
             exists(DetailDirName(handed[k].id)) \/ Assets(handed[k].id) = <<>>

\* C19: every member run in which each request and each operation of the
\* filesystem resolves comes to its end and stays there: the first error,
\* or all survivors committed, skipped or without assets.
C19_MemberRunEnds == <>[]Ended

\* a run over three pages that repeat a volume has ended with two
\* directories committed
C19_Witness ==
    /\ mode = "member" /\ pc = "done" /\ Ended
    /\ Len(pages_fetched) = 4 /\ ~DistinctIds(accum)
    /\ Cardinality(finals) = 2


\* C20: when download_np has returned, the copy of the temporary directory
\* that the commit places under the base directory is not there: the base
\* directory holds final destination directories only.
C20_NoCopyLeftBehind ==
    (pc = "dnp_ret" \/ ~InDownloadNp) => temp_dir_2 = None


=============================================================================
